---- MODULE Spec2Model ----
(***************************************************************************)
(* Contact form controller of src/src/App.jsx: the form values, the        *)
(* per-field errors, the two submission flags and the pending setTimeout   *)
(* callbacks of the App component.                                         *)
(*                                                                         *)
(* A JavaScript string is a sequence of one-character strings.  A plain    *)
(* JavaScript object (errors, found) is a sequence of <<key, value>>       *)
(* entries in insertion order, which is the order Object.keys reports.     *)
(***************************************************************************)
EXTENDS Integers, Sequences, FiniteSets, TLC

VARIABLES form, errors, isSubmitting, mailSent, timers, focusField, mounted

vars == <<form, errors, isSubmitting, mailSent, timers, focusField, mounted>>

\* ------------------------------------------------------------------ bounds
\* Largest number of setTimeout callbacks pending at once.
MaxPending == 3

\* Longest value typed in each field when the validators are checked alone.
MaxNameLen == 4
MaxEmailLen == 6
MaxMessageLen == 11

\* ------------------------------------------------------- program constants
SendDelay == 700
RevertDelay == 3000
MinNameLen == 2
MinMessageLen == 10

Fields == <<"name", "email", "message">>
FieldSet == {"name", "email", "message"}

NameError == "Please enter your name (min 2 characters)."
EmailError == "Please enter a valid email address."
MessageError == "Message must be at least 10 characters."

\* ----------------------------------------------------------------- strings
IsSpace(c) == c = " "

RECURSIVE TrimStart(_)
TrimStart(s) ==
  IF s # <<>> /\ IsSpace(Head(s)) THEN TrimStart(Tail(s)) ELSE s

RECURSIVE TrimEnd(_)
TrimEnd(s) ==
  IF s # <<>> /\ IsSpace(s[Len(s)]) THEN TrimEnd(SubSeq(s, 1, Len(s) - 1)) ELSE s

\* String.prototype.trim
Trim(s) == TrimEnd(TrimStart(s))

\* The character class [^\s@]
NotSpaceAt(c) == ~IsSpace(c) /\ c # "@"

\* emailRegex.test(s) for /^[^\s@]+@[^\s@]+\.[^\s@]+$/ : s splits as
\* L @ D . T with L, D, T non-empty runs of [^\s@] (D and T may hold dots).
emailRegexTest(s) ==
  \E i \in 1..Len(s) : \E j \in 1..Len(s) :
    /\ i >= 2
    /\ j >= i + 2
    /\ j <= Len(s) - 1
    /\ s[i] = "@"
    /\ s[j] = "."
    /\ \A k \in 1..Len(s) : k # i => NotSpaceAt(s[k])

\* ------------------------------------------------------------- validation
validateFieldEmailNoTrim(name, value) ==
  IF name = "name"
    THEN IF value = <<>> \/ Len(Trim(value)) < MinNameLen THEN NameError ELSE ""
  ELSE IF name = "email"
    THEN IF value = <<>> \/ ~emailRegexTest(value) THEN EmailError ELSE ""
  ELSE IF name = "message"
    THEN IF value = <<>> \/ Len(Trim(value)) < MinMessageLen THEN MessageError ELSE ""
  ELSE ""

validateFieldNameOffByOne(name, value) ==
  IF name = "name"
    THEN IF value = <<>> \/ Len(Trim(value)) <= MinNameLen THEN NameError ELSE ""
  ELSE IF name = "email"
    THEN IF value = <<>> \/ ~emailRegexTest(Trim(value)) THEN EmailError ELSE ""
  ELSE IF name = "message"
    THEN IF value = <<>> \/ Len(Trim(value)) < MinMessageLen THEN MessageError ELSE ""
  ELSE ""

validateFieldMessageNoTrim(name, value) ==
  IF name = "name"
    THEN IF value = <<>> \/ Len(Trim(value)) < MinNameLen THEN NameError ELSE ""
  ELSE IF name = "email"
    THEN IF value = <<>> \/ ~emailRegexTest(Trim(value)) THEN EmailError ELSE ""
  ELSE IF name = "message"
    THEN IF value = <<>> \/ Len(value) < MinMessageLen THEN MessageError ELSE ""
  ELSE ""

validateField(name, value) ==
  IF name = "name"
    THEN IF value = <<>> \/ Len(Trim(value)) < MinNameLen THEN NameError ELSE ""
  ELSE IF name = "email"
    THEN IF value = <<>> \/ ~emailRegexTest(Trim(value)) THEN EmailError ELSE ""
  ELSE IF name = "message"
    THEN IF value = <<>> \/ Len(Trim(value)) < MinMessageLen THEN MessageError ELSE ""
  ELSE ""

validateAllCopiedLimit(values) ==
  (IF values.name = <<>> \/ Len(Trim(values.name)) < MinNameLen
     THEN << <<"name", NameError>> >> ELSE <<>>)
  \o (IF values.email = <<>> \/ ~emailRegexTest(Trim(values.email))
     THEN << <<"email", EmailError>> >> ELSE <<>>)
  \o (IF values.message = <<>> \/ Len(Trim(values.message)) < MinNameLen
     THEN << <<"message", MessageError>> >> ELSE <<>>)

validateAllReversed(values) ==
  (IF values.message = <<>> \/ Len(Trim(values.message)) < MinMessageLen
     THEN << <<"message", MessageError>> >> ELSE <<>>)
  \o (IF values.email = <<>> \/ ~emailRegexTest(Trim(values.email))
     THEN << <<"email", EmailError>> >> ELSE <<>>)
  \o (IF values.name = <<>> \/ Len(Trim(values.name)) < MinNameLen
     THEN << <<"name", NameError>> >> ELSE <<>>)

\* The object e built by validateAll, entries in the order they are assigned.
validateAll(values) ==
  (IF values.name = <<>> \/ Len(Trim(values.name)) < MinNameLen
     THEN << <<"name", NameError>> >> ELSE <<>>)
  \o (IF values.email = <<>> \/ ~emailRegexTest(Trim(values.email))
     THEN << <<"email", EmailError>> >> ELSE <<>>)
  \o (IF values.message = <<>> \/ Len(Trim(values.message)) < MinMessageLen
     THEN << <<"message", MessageError>> >> ELSE <<>>)

\* ------------------------------------------------------------ JS objects
Keys(obj) == [i \in 1..Len(obj) |-> obj[i][1]]
HasKey(obj, k) == \E i \in 1..Len(obj) : obj[i][1] = k

PutAppend(obj, k, v) == Append(obj, <<k, v>>)

\* obj[k] = v : an existing key keeps its place, a new key goes last.
Put(obj, k, v) ==
  IF HasKey(obj, k)
    THEN [i \in 1..Len(obj) |-> IF obj[i][1] = k THEN <<k, v>> ELSE obj[i]]
    ELSE Append(obj, <<k, v>>)

\* delete obj[k]
Delete(obj, k) == SelectSeq(obj, LAMBDA e : e[1] # k)

\* ------------------------------------------------------------------ state
EmptyForm == [name |-> <<>>, email |-> <<>>, message |-> <<>>]

\* Values the user enters in each field: empty, non-empty but invalid after
\* trimming, and valid.
InputValues(f) ==
  IF f = "name"
    THEN {<<>>, <<" ", "a", " ">>, <<"a", "b">>}
  ELSE IF f = "email"
    THEN {<<>>, <<"a", "@", "b">>, <<" ", "a", "@", "b", ".", "c">>}
  ELSE {<<>>,
        <<"a", "a", "a", "a", "a", "a", "a", "a", "a", " ">>,
        <<"a", "a", "a", "a", " ", "a", "a", "a", "a", "a">>}

Init ==
  /\ form = EmptyForm
  /\ errors = <<>>
  /\ isSubmitting = FALSE
  /\ mailSent = FALSE
  /\ timers = <<>>
  /\ focusField = "none"
  /\ mounted = TRUE

\* ----------------------------------------------------------------- timers
\* Handle returned by setTimeout: a number no pending timer holds.
FreshId(ts) ==
  CHOOSE n \in 1..(Len(ts) + 1) :
    /\ \A i \in 1..Len(ts) : ts[i].id # n
    /\ \A m \in 1..(n - 1) : \E i \in 1..Len(ts) : ts[i].id = m

SetTimeout(ts, kind, delay) ==
  Append(ts, [id |-> FreshId(ts), kind |-> kind, delay |-> delay])

RemoveAt(ts, i) == SubSeq(ts, 1, i - 1) \o SubSeq(ts, i + 1, Len(ts))

\* A timer set earlier with a delay no longer than this one's expires first.
CanFire(ts, i) == \A j \in 1..(i - 1) : ts[j].delay > ts[i].delay

NumSend(ts) == Cardinality({i \in 1..Len(ts) : ts[i].kind = "send"})
NumRevert(ts) == Cardinality({i \in 1..Len(ts) : ts[i].kind = "revert"})

\* ---------------------------------------------------------------- handlers
handleChangeKeepStale(prev, name, value) ==
  IF validateField(name, value) # ""
    THEN Put(prev, name, validateField(name, value))
    ELSE prev

handleChangeOnlyThis(prev, name, value) ==
  IF validateField(name, value) # ""
    THEN << <<name, validateField(name, value)>> >>
    ELSE <<>>

\* The updater handleChange passes to setErrors.
handleChangeErrors(prev, name, value) ==
  IF validateField(name, value) # ""
    THEN Put(prev, name, validateField(name, value))
    ELSE Delete(prev, name)

handleBlurMergeOnly(prev, name, value) ==
  IF validateField(name, value) # ""
    THEN Put(prev, name, validateField(name, value))
    ELSE prev

\* The two setErrors updaters of handleBlur, applied in order.
handleBlurErrors(prev, name, value) ==
  LET err == validateField(name, value)
      merged == IF err # "" THEN Put(prev, name, err) ELSE prev
  IN  IF err = "" THEN Delete(merged, name) ELSE merged

handleChange(name, value) ==
  /\ mounted
  /\ form' = [form EXCEPT ![name] = value]
  /\ errors' = handleChangeErrors(errors, name, value)
  /\ UNCHANGED <<isSubmitting, mailSent, timers, focusField, mounted>>

\* The inputs are controlled: e.target.value is form[name].
handleBlur(name) ==
  /\ mounted
  /\ errors' = handleBlurErrors(errors, name, form[name])
  /\ UNCHANGED <<form, isSubmitting, mailSent, timers, focusField, mounted>>

\* The submit button is enabled.
SubmitEnabledAlways == mounted

SubmitEnabled == mounted /\ ~isSubmitting

handleSubmitNoReturn ==
  /\ SubmitEnabled
  /\ Len(timers) < MaxPending
  /\ errors' = validateAll(form)
  /\ focusField' = IF Len(validateAll(form)) > 0
                     THEN Keys(validateAll(form))[1] ELSE focusField
  /\ isSubmitting' = TRUE
  /\ timers' = SetTimeout(timers, "send", SendDelay)
  /\ UNCHANGED <<form, mailSent, mounted>>

handleSubmitKeepErrors ==
  /\ SubmitEnabled
  /\ IF Len(validateAll(form)) > 0
       THEN /\ focusField' = Keys(validateAll(form))[1]
            /\ UNCHANGED <<form, errors, isSubmitting, mailSent, timers, mounted>>
       ELSE /\ Len(timers) < MaxPending
            /\ isSubmitting' = TRUE
            /\ timers' = SetTimeout(timers, "send", SendDelay)
            /\ UNCHANGED <<form, errors, mailSent, focusField, mounted>>

handleSubmit ==
  /\ SubmitEnabled
  /\ errors' = validateAll(form)
  /\ IF Len(validateAll(form)) > 0
       THEN /\ focusField' = Keys(validateAll(form))[1]
            /\ UNCHANGED <<form, isSubmitting, mailSent, timers, mounted>>
       ELSE /\ Len(timers) < MaxPending
            /\ isSubmitting' = TRUE
            /\ timers' = SetTimeout(timers, "send", SendDelay)
            /\ UNCHANGED <<form, mailSent, focusField, mounted>>

onKeyCancelsSend ==
  /\ mounted
  /\ mailSent' = FALSE
  /\ isSubmitting' = FALSE
  /\ timers' = SelectSeq(timers, LAMBDA t : t.kind # "send")
  /\ UNCHANGED <<form, errors, focusField, mounted>>

\* The keydown listener, for the Escape key.
onKey ==
  /\ mounted
  /\ mailSent' = FALSE
  /\ UNCHANGED <<form, errors, isSubmitting, timers, focusField, mounted>>

sendCallbackStillSubmitting(i) ==
  /\ mailSent' = TRUE
  /\ form' = EmptyForm
  /\ timers' = SetTimeout(RemoveAt(timers, i), "revert", RevertDelay)
  /\ UNCHANGED <<errors, isSubmitting, focusField, mounted>>

sendCallbackKeepForm(i) ==
  /\ isSubmitting' = FALSE
  /\ mailSent' = TRUE
  /\ timers' = SetTimeout(RemoveAt(timers, i), "revert", RevertDelay)
  /\ UNCHANGED <<form, errors, focusField, mounted>>

sendCallbackClearErrors(i) ==
  /\ isSubmitting' = FALSE
  /\ mailSent' = TRUE
  /\ form' = EmptyForm
  /\ errors' = <<>>
  /\ timers' = SetTimeout(RemoveAt(timers, i), "revert", RevertDelay)
  /\ UNCHANGED <<focusField, mounted>>

\* The callback of the 700 ms timer.
sendCallback(i) ==
  /\ isSubmitting' = FALSE
  /\ mailSent' = TRUE
  /\ form' = EmptyForm
  /\ timers' = SetTimeout(RemoveAt(timers, i), "revert", RevertDelay)
  /\ UNCHANGED <<errors, focusField, mounted>>

revertCallbackKeepToast(i) ==
  /\ timers' = RemoveAt(timers, i)
  /\ UNCHANGED <<form, errors, isSubmitting, mailSent, focusField, mounted>>

revertCallbackToggle(i) ==
  /\ mailSent' = ~mailSent
  /\ timers' = RemoveAt(timers, i)
  /\ UNCHANGED <<form, errors, isSubmitting, focusField, mounted>>

\* The callback of the 3000 ms timer.
revertCallback(i) ==
  /\ mailSent' = FALSE
  /\ timers' = RemoveAt(timers, i)
  /\ UNCHANGED <<form, errors, isSubmitting, focusField, mounted>>

\* A pending timer expires and its callback runs, mounted or not: no handle
\* is kept and nothing calls clearTimeout.
TimerFire ==
  \E i \in 1..Len(timers) :
    /\ CanFire(timers, i)
    /\ IF timers[i].kind = "send" THEN sendCallback(i) ELSE revertCallback(i)

\* The effect cleanup: only the keydown listener is removed.
Unmount ==
  /\ mounted
  /\ mounted' = FALSE
  /\ UNCHANGED <<form, errors, isSubmitting, mailSent, timers, focusField>>

Change == \E f \in FieldSet : \E v \in InputValues(f) : handleChange(f, v)
Blur == \E f \in FieldSet : handleBlur(f)

Next ==
  \/ Change
  \/ Blur
  \/ handleSubmit
  \/ onKey
  \/ TimerFire
  \/ Unmount

Spec == Init /\ [][Next]_vars

\* Timers that are due do expire.
LiveSpec == Spec /\ WF_vars(TimerFire)

\* ------------------------------------------------- the validators alone
\* Characters typed in each field, and every string of them up to a length.
NameChars == {"a", " "}
EmailChars == {"a", "@", ".", " "}
MessageChars == {"a", " "}
Strings(chars, n) == UNION {[1..k -> chars] : k \in 0..n}

\* errors after the user has typed v into field f, starting from prev.
Typed(prev, f, v) == handleChangeErrors(prev, f, v)

\* The form right after the user typed: one field with any string, or the
\* three fields with the values of InputValues.
ValInit ==
  /\ \/ \E v \in Strings(NameChars, MaxNameLen) :
          /\ form = [EmptyForm EXCEPT !.name = v]
          /\ errors = Typed(<<>>, "name", v)
     \/ \E v \in Strings(EmailChars, MaxEmailLen) :
          /\ form = [EmptyForm EXCEPT !.email = v]
          /\ errors = Typed(<<>>, "email", v)
     \/ \E v \in Strings(MessageChars, MaxMessageLen) :
          /\ form = [EmptyForm EXCEPT !.message = v]
          /\ errors = Typed(<<>>, "message", v)
     \/ \E n \in InputValues("name") : \E m \in InputValues("email") :
          \E t \in InputValues("message") :
            /\ form = [name |-> n, email |-> m, message |-> t]
            /\ errors = Typed(Typed(Typed(<<>>, "name", n), "email", m), "message", t)
  /\ isSubmitting = FALSE
  /\ mailSent = FALSE
  /\ timers = <<>>
  /\ focusField = "none"
  /\ mounted = TRUE

ValNext ==
  \/ Blur
  \/ handleSubmit

ValSpec == ValInit /\ [][ValNext]_vars

\* ------------------------------------------------------------ properties
Idle == ~isSubmitting /\ ~mailSent
AllValid(values) == \A f \in FieldSet : validateField(f, values[f]) = ""

\* A step that sets a 700 ms send timer / one in which a send timer expires.
StartsSend == NumSend(timers') > NumSend(timers)
SendFired == NumSend(timers') < NumSend(timers)

\* First field, in the order name, email, message, whose value fails its rule.
FirstInvalid(values) ==
  IF validateField("name", values.name) # "" THEN "name"
  ELSE IF validateField("email", values.email) # "" THEN "email"
  ELSE IF validateField("message", values.message) # "" THEN "message"
  ELSE "none"

\* C1 as stated: no step taken while a send is in progress or the success
\* notification is showing starts a new send.
C1_OnlyWhileIdle == [][(isSubmitting \/ mailSent) => ~StartsSend]_vars

\* C1 amended: no step taken while a send is in progress (isSubmitting) starts
\* a new send; the notification alone does not gate the submit trigger.
C1_NotWhileSending == [][isSubmitting => ~StartsSend]_vars

\* A send is in progress, the values are all valid and a timer slot is free:
\* only the disabled trigger keeps a second send from starting.
C1_Witness ==
  /\ mounted /\ isSubmitting
  /\ AllValid(form)
  /\ Len(timers) < MaxPending

\* C2: at most one 700 ms send timer is pending, and one is pending exactly
\* while isSubmitting is set.
C2_OneSendInFlight ==
  /\ NumSend(timers) <= 1
  /\ isSubmitting <=> NumSend(timers) = 1

\* A send is in flight next to an earlier notification's revert timer, after
\* the user has typed valid values again.
C2_Witness ==
  /\ NumSend(timers) = 1
  /\ NumRevert(timers) >= 1
  /\ AllValid(form)

\* C3 as stated: isSubmitting and mailSent are never both true.
C3_FlagsExclusive == ~(isSubmitting /\ mailSent)

\* C3 amended: isSubmitting and mailSent are both true only while a send that
\* was started during a showing notification is in flight, that is, a send
\* timer is pending that was set after a still pending revert timer.
C3_BothOnlyAfterResubmit ==
  (isSubmitting /\ mailSent) =>
    \E i \in 1..Len(timers) : \E j \in 1..Len(timers) :
      /\ i < j
      /\ timers[i].kind = "revert"
      /\ timers[j].kind = "send"

C3_Witness == isSubmitting /\ mailSent /\ mounted

\* C4 as stated: the notification is hidden only by a dismiss (a step that
\* leaves the timers alone) or by the expiry of the revert timer that the
\* latest entry into Succeeded set, which is the last revert timer set.
C4_WindowEndsOnlyByOwnTimer ==
  [][(mailSent /\ ~mailSent') =>
       \/ timers' = timers
       \/ \E i \in 1..Len(timers) :
            /\ timers[i].kind = "revert"
            /\ timers' = RemoveAt(timers, i)
            /\ \A j \in 1..Len(timers) : timers[j].kind = "revert" => j <= i]_vars

\* C5 as stated: once the component is unmounted no timer callback runs and
\* no controller state is written.
C5_NoCallbackAfterTeardown ==
  [][~mounted => UNCHANGED <<timers, form, isSubmitting, mailSent>>]_vars

\* C6 as stated: a submit of valid values in Idle enters Sending, Sending leads
\* to Succeeded, Succeeded leads to Idle, and the form is empty when Succeeded
\* is reached.
C6_Lifecycle ==
  /\ [][(handleSubmit /\ Idle /\ AllValid(form)) => isSubmitting']_vars
  /\ [][SendFired => (mailSent' /\ form' = EmptyForm)]_vars
  /\ isSubmitting ~> (mailSent /\ ~isSubmitting)
  /\ mailSent ~> Idle

\* C6 amended: as C6, but Succeeded leads to a state in which the notification
\* is hidden; that state is Idle unless a submission was accepted meanwhile.
C6_LifecycleHidden ==
  /\ [][(handleSubmit /\ Idle /\ AllValid(form)) => isSubmitting']_vars
  /\ [][SendFired => (mailSent' /\ form' = EmptyForm)]_vars
  /\ isSubmitting ~> (mailSent /\ ~isSubmitting)
  /\ mailSent ~> ~mailSent

\* Succeeded has just been reached from a submission of valid values.
C6_Witness ==
  /\ mailSent /\ ~isSubmitting
  /\ form = EmptyForm
  /\ errors = <<>>
  /\ NumRevert(timers) = 1

\* C7: every field with an entry in errors currently fails its rule.
C7_ErrorsOnlyForInvalid ==
  \A i \in 1..Len(errors) : validateField(errors[i][1], form[errors[i][1]]) # ""

\* After a send, one field holds an error and another is valid again.
C7_Witness ==
  /\ errors # <<>>
  /\ NumRevert(timers) >= 1
  /\ \E f \in FieldSet : validateField(f, form[f]) = "" /\ ~HasKey(errors, f)

\* C8: the expiry of a send timer empties all three values, a step that changes
\* the values is such an expiry or a change event, and a change event sets
\* only the field it names.
C8_ResetOnlyOnSuccess ==
  [][/\ SendFired => form' = EmptyForm
     /\ form' # form => (SendFired \/ Change)
     /\ \A f \in FieldSet : \A v \in InputValues(f) :
          handleChange(f, v) => form' = [form EXCEPT ![f] = v]]_vars

\* The values were reset although the user had typed while the send was in
\* flight.
C8_Witness ==
  /\ form = EmptyForm
  /\ mailSent
  /\ errors # <<>>

\* C9: a submit with an invalid field leaves isSubmitting, mailSent, the values
\* and the timers as they were.
C9_BlockedSubmitNoOp ==
  [][(handleSubmit /\ ~AllValid(form)) =>
       UNCHANGED <<isSubmitting, mailSent, form, timers>>]_vars

\* A submit of three invalid values was blocked in Idle.
C9_Witness ==
  /\ Idle /\ timers = <<>>
  /\ focusField = "name"
  /\ Keys(errors) = Fields
  /\ ~AllValid(form)

\* C10: a blocked submit focuses the first invalid field in the order name,
\* email, message; an accepted one focuses nothing.
C10_FocusFirstInvalid ==
  [][handleSubmit =>
       focusField' = IF FirstInvalid(form) # "none"
                       THEN FirstInvalid(form) ELSE focusField]_vars

\* Name valid, email and message invalid: email was focused.
C10_Witness ==
  /\ focusField = "email"
  /\ validateField("name", form.name) = ""
  /\ Keys(errors) = <<"email", "message">>
  /\ FirstInvalid(form) = "email"

\* The entries of a JS object as a mapping, whatever their order.
Entries(obj) == {obj[i] : i \in 1..Len(obj)}
EntryOf(obj, k) == {e \in Entries(obj) : e[1] = k}

\* A step in which a 3000 ms revert timer expires.
RevertFired == NumRevert(timers') < NumRevert(timers)

\* C11: after every submit, blocked or accepted, errors holds exactly the
\* entries of validateAll(form): one for each invalid field, none for a valid
\* one.
C11_SubmitReplacesErrors ==
  [][handleSubmit => Entries(errors') = Entries(validateAll(form'))]_vars

\* A submit of the emptied form during the notification was blocked: the three
\* fields, which had no entry after the reset, each gained one.
C11_Witness ==
  /\ mailSent
  /\ form = EmptyForm
  /\ focusField = "name"
  /\ Entries(errors) = Entries(validateAll(form))
  /\ Len(errors) = 3

C13_ChangeFrame ==
  [][\A f \in FieldSet : \A v \in InputValues(f) :
       handleChange(f, v) =>
         /\ form'[f] = v
         /\ EntryOf(errors', f) =
              IF validateField(f, v) # "" THEN {<<f, validateField(f, v)>>} ELSE {}
         /\ \A g \in FieldSet \ {f} :
              /\ form'[g] = form[g]
              /\ EntryOf(errors', g) = EntryOf(errors, g)
         /\ UNCHANGED <<isSubmitting, mailSent, timers>>]_vars

\* Name was typed and is invalid, message keeps its entry, and the untouched
\* email has none although it is empty.
C13_Witness ==
  /\ focusField = "none"
  /\ form.name = <<" ", "a", " ">>
  /\ form.email = <<>>
  /\ Keys(errors) = <<"message", "name">>

\* The value without its leading and trailing spaces, by positions.
RefTrim(s) ==
  LET solid == {i \in 1..Len(s) : s[i] # " "}
  IN  IF solid = {} THEN <<>>
      ELSE SubSeq(s, CHOOSE i \in solid : \A j \in solid : i <= j,
                     CHOOSE i \in solid : \A j \in solid : j <= i)

\* ^[^\s@]+@[^\s@]+\.[^\s@]+$ as an automaton: 0 start, 1 in the local part,
\* 2 after @, 3 in the domain, 4 after the dot, 5 in the last segment.
RefStep(q, c) ==
  LET plain == c # " " /\ c # "@"
  IN  IF q = 0 THEN (IF plain THEN {1} ELSE {})
      ELSE IF q = 1 THEN (IF plain THEN {1} ELSE {}) \cup (IF c = "@" THEN {2} ELSE {})
      ELSE IF q = 2 THEN (IF plain THEN {3} ELSE {})
      ELSE IF q = 3 THEN (IF plain THEN {3} ELSE {}) \cup (IF c = "." THEN {4} ELSE {})
      ELSE IF q = 4 THEN (IF plain THEN {5} ELSE {})
      ELSE (IF plain THEN {5} ELSE {})

RECURSIVE RefRun(_, _)
RefRun(qs, s) ==
  IF s = <<>> THEN qs
  ELSE RefRun(UNION {RefStep(q, Head(s)) : q \in qs}, Tail(s))

RefEmailMatches(s) == 5 \in RefRun({0}, s)

\* C14: validateField("email", s) is empty iff s without its leading and
\* trailing whitespace matches the pattern, and is the email message
\* otherwise; a blur on the field records exactly that.
C14_EmailRule ==
  /\ validateField("email", form.email) =
       IF RefEmailMatches(RefTrim(form.email)) THEN "" ELSE EmailError
  /\ validateField("email", <<>>) = EmailError
  /\ HasKey(errors, "email") => ~RefEmailMatches(RefTrim(form.email))

\* A padded address that is valid once trimmed: the blocked submit gave it
\* no entry.
C14_Witness ==
  /\ focusField = "name"
  /\ Keys(errors) = <<"name", "message">>
  /\ form.email # <<>>
  /\ Trim(form.email) # form.email
  /\ validateField("email", form.email) = ""
  /\ ~HasKey(errors, "email")

\* C15: validateField("name", s) is empty iff s has at least 2 characters once
\* trimmed, and is the name message otherwise.
C15_NameRule ==
  /\ validateField("name", form.name) =
       IF Len(RefTrim(form.name)) >= 2 THEN "" ELSE NameError
  /\ validateField("name", <<>>) = NameError
  /\ HasKey(errors, "name") => Len(RefTrim(form.name)) < 2

\* One character between spaces: three characters long, invalid, and focused
\* by the blocked submit.
C15_Witness ==
  /\ Len(form.name) >= 3
  /\ Len(Trim(form.name)) = 1
  /\ focusField = "name"
  /\ <<"name", NameError>> \in Entries(errors)

\* C16: validateField("message", s) is empty iff s has at least 10 characters
\* once trimmed, and is the message message otherwise.
C16_MessageRule ==
  /\ validateField("message", form.message) =
       IF Len(RefTrim(form.message)) >= 10 THEN "" ELSE MessageError
  /\ validateField("message", <<>>) = MessageError
  /\ HasKey(errors, "message") => Len(RefTrim(form.message)) < 10

\* Nine characters padded with a space to ten: invalid, with its entry after
\* the blocked submit.
C16_Witness ==
  /\ Len(form.message) = 10
  /\ Len(Trim(form.message)) = 9
  /\ focusField = "name"
  /\ <<"message", MessageError>> \in Entries(errors)

\* C17: validateAll(values) has an entry for a field iff validateField gives a
\* message for that field's value, and the entry is that message; nothing else
\* is in it.
C17_AllAgreesWithField ==
  /\ \A f \in FieldSet :
       EntryOf(validateAll(form), f) =
         IF validateField(f, form[f]) # ""
           THEN {<<f, validateField(f, form[f])>>} ELSE {}
  /\ Len(validateAll(form)) = Cardinality(Entries(validateAll(form)))
  /\ \A i \in 1..Len(validateAll(form)) : validateAll(form)[i][1] \in FieldSet
  /\ Len(validateAll(EmptyForm)) = 3
  /\ AllValid(form) => validateAll(form) = <<>>

\* Three valid values were submitted, validateAll found nothing and the send
\* started.
C17_Witness ==
  /\ AllValid(form)
  /\ isSubmitting
  /\ errors = <<>>

\* C18: for every field and value the errors handleBlur computes from the
\* current errors are those handleChange computes, and a blur leaves the
\* values alone.
C18_BlurAsChange ==
  [][/\ \A f \in FieldSet : \A v \in InputValues(f) :
          handleBlurErrors(errors, f, v) = handleChangeErrors(errors, f, v)
     /\ \A f \in FieldSet :
          handleBlur(f) =>
            /\ form' = form
            /\ errors' = handleChangeErrors(errors, f, form[f])]_vars

\* After the reset, a blur on the empty name field gave it its entry.
C18_Witness ==
  /\ mailSent
  /\ form = EmptyForm
  /\ focusField = "none"
  /\ Keys(errors) = <<"name">>

\* C19: after a change event, the same change event again would leave the
\* values and the errors as they are.
C19_ChangeIdempotent ==
  [][\A f \in FieldSet : \A v \in InputValues(f) :
       handleChange(f, v) =>
         /\ [form' EXCEPT ![f] = v] = form'
         /\ handleChangeErrors(errors', f, v) = errors']_vars

\* An invalid address was typed: its entry is there once.
C19_Witness ==
  /\ Idle /\ focusField = "none"
  /\ form.email = <<"a", "@", "b">>
  /\ Keys(errors) = <<"email">>

\* C20: the expiry of the send timer empties the three values whatever was
\* typed meanwhile, and leaves errors as it was.
C20_ResetKeepsErrors ==
  [][SendFired => (form' = EmptyForm /\ errors' = errors)]_vars

\* Typing during the send left an entry for email only: after the reset the
\* empty name and message are invalid and have no entry.
C20_Witness ==
  /\ mailSent /\ ~isSubmitting
  /\ form = EmptyForm
  /\ Keys(errors) = <<"email">>
  /\ validateField("name", form.name) # ""

\* C21: an Escape press clears mailSent and leaves the values, the errors,
\* isSubmitting and the pending timers as they were; the send it does not
\* cancel still shows the notification when its timer expires.
C21_EscapeOnlyHides ==
  [][/\ onKey => (~mailSent' /\ UNCHANGED <<form, errors, isSubmitting, timers>>)
     /\ SendFired => mailSent']_vars

\* Escape hid the earlier notification while a later send was in flight: the
\* send timer and the earlier revert timer are both still pending.
C21_Witness ==
  /\ mounted
  /\ isSubmitting /\ ~mailSent
  /\ Len(timers) = 2
  /\ timers[1].kind = "revert"
  /\ timers[2].kind = "send"

====
